---- MODULE Spec2Model ----
(***************************************************************************)
(* Model of pyLOOKinRemote (src/src/pylookinremote/pylookinremote.py):     *)
(*   - ACRemote.Status: the 16-bit status word codec and its setters       *)
(*   - IRRemoteCommandRaw: __eq__, _compare, isSimilar, _groupCommands     *)
(*   - IRRemoteFunction.fromIRSensor / __init__: learning a function       *)
(*   - ACRemote: the mutators, statusRefresh and the statusSet loop        *)
(*   - LOOKinRemote.sensorDump: the capture loop                           *)
(*   - IRRemoteFunction: __init__, fromJSON, trigger                       *)
(* Python exceptions are modelled as result records with ok = FALSE and    *)
(* the exception's class name in exc.                                      *)
(***************************************************************************)
EXTENDS Integers, Sequences, FiniteSets, TLC

VARIABLES
    \* ---- ACRemote.Status codec (fromStatusBytes / toStatusBytes) ----
    cpc,        \* position of the codec scenario
    codeIn,     \* the int handed to fromStatusBytes
    status,     \* the ACRemote.Status object (its four fields)
    codeOut,    \* the int returned by toStatusBytes
    status2,    \* Status.fromStatusBytes(status.toStatusBytes())
    exc,        \* name of the exception the last call raised, "" if none
    lastCall,   \* the last setter call made on `status`: [op, arg, temp]
    \* ---- IRRemoteCommandRaw.isSimilar ----
    spc,        \* position of the isSimilar scenario
    lhs, rhs,   \* the `_sequence` tuples of the two commands
    simResult,  \* what lhs.isSimilar(rhs) returned or raised
    compareCalled,  \* TRUE iff isSimilar went into _compare
    \* ---- IRRemoteCommandRaw._groupCommands / IRRemoteFunction.fromIRSensor ----
    gpc,        \* position inside fromIRSensor / _groupCommands
    irCommands, \* list of captured commands (their sequences); index = id()
    minMatches, \* the minMatches argument of _groupCommands
    pairIdx,    \* index of the next pair of combinations(irRemoteCommands, 2)
    retCommands,\* insertion-ordered dict: Seq of [key, members]
    retIDs,     \* dict id -> set of ids
    learned,    \* outcome of fromIRSensor
    \* ---- ACRemote: the mutators, statusRefresh and statusSet ----
    apc,        \* position inside the ACRemote call
    build,      \* which source file the objects come from
    acCall,     \* the public method called and its argument: [op, arg]
    statusBefore,  \* self._status when the call was made
    cached,     \* self._status
    target,     \* the `status` argument of statusSet
    reported,   \* the status code the device reports, NoStatusKey for none
    lastDecoded,\* the status last decoded from device data by _remoteDataSet
    submissions,\* requests of the AC command event sent to the device
    polls,      \* requests of the remote's data sent to the device
    now,        \* time.time(), in seconds since the call was made
    timeout,    \* the local `timeout` of statusSet
    tryNum,     \* the loop variable of statusSet
    acOutcome,  \* "", "returned" or the name of the exception raised
    \* ---- LOOKinRemote.sensorDump ----
    dpc,        \* position inside sensorDump
    dName,      \* argument `name`
    period,     \* argument `period`
    maxSignals, \* argument `maxSignals`, NoMax for None
    clock,      \* time.time(), in ticks
    timeStop,   \* local `timeStop`
    timeNext,   \* local `timeNext`
    signals,    \* local `signals`: the `Updated` stamps of the captures
    lastPoll,   \* what the last self.sensor(name) returned or raised
    sensorPolls,\* calls of self.sensor(name) made
    failedPolls,\* calls of self.sensor(name) that raised a caught error
    polledWhenFull,  \* TRUE iff self.sensor was called with len(signals) >= maxSignals
    pollLog,    \* what the calls of self.sensor(name) returned or raised, in order
    signalPolls,\* for each entry of `signals`, the number of the call it is the data of
    dOutcome,   \* "", "returned" or the name of the exception raised
    \* ---- IRRemoteFunction: __init__, fromJSON, trigger, fromIRSensor ----
    fpc,        \* position of the function scenario
    fCall,      \* the call made: [op, arg, functionType]
    fn,         \* the IRRemoteFunction the call produced
    fOutcome,   \* "", "returned" or the name of the exception raised
    transmitted,\* command events sent by trigger
    irPolls     \* calls of lookinRemote.sensorDump made by fromIRSensor

vars == <<cpc, codeIn, status, codeOut, status2, exc, lastCall,
          spc, lhs, rhs, simResult, compareCalled,
          gpc, irCommands, minMatches, pairIdx, retCommands, retIDs, learned,
          apc, build, acCall, statusBefore, cached, target, reported,
          lastDecoded, submissions, polls, now, timeout, tryNum, acOutcome,
          dpc, dName, period, maxSignals, clock, timeStop, timeNext, signals,
          lastPoll, sensorPolls, failedPolls, polledWhenFull, pollLog,
          signalPolls, dOutcome,
          fpc, fCall, fn, fOutcome, transmitted, irPolls>>

codecVars == <<cpc, codeIn, status, codeOut, status2, exc, lastCall>>
simVars   == <<spc, lhs, rhs, simResult, compareCalled>>
groupVars == <<gpc, irCommands, minMatches, pairIdx, retCommands, retIDs, learned>>
acVars    == <<apc, build, acCall, statusBefore, cached, target, reported,
               lastDecoded, submissions, polls, now, timeout, tryNum, acOutcome>>
dumpVars  == <<dpc, dName, period, maxSignals, clock, timeStop, timeNext, signals,
               lastPoll, sensorPolls, failedPolls, polledWhenFull, pollLog,
               signalPolls, dOutcome>>
fnVars    == <<fpc, fCall, fn, fOutcome, transmitted, irPolls>>

(***************************************************************************)
(* Bounds of the model                                                     *)
(***************************************************************************)
\* setter temperatures are drawn from (16 - TempMargin)..(31 + TempMargin)
TempMargin == 2

(***************************************************************************)
(* Integer helpers: Python's & and | on non-negative ints                  *)
(***************************************************************************)
RECURSIVE BitAnd(_, _)
BitAnd(a, b) ==
    IF a = 0 \/ b = 0 THEN 0
    ELSE ((a % 2) * (b % 2)) + 2 * BitAnd(a \div 2, b \div 2)

RECURSIVE BitOr(_, _)
BitOr(a, b) ==
    IF a = 0 THEN b
    ELSE IF b = 0 THEN a
    ELSE (IF (a % 2) + (b % 2) > 0 THEN 1 ELSE 0) + 2 * BitOr(a \div 2, b \div 2)

Abs(x) == IF x < 0 THEN -x ELSE x

MaxOf(x, y) == IF x < y THEN y ELSE x

MinOf(x, y) == IF x < y THEN x ELSE y

(***************************************************************************)
(* The three enumerations: name -> value                                   *)
(***************************************************************************)
OPERATINGMODE ==
    [OFF |-> 0, AUTO |-> 4096, COOL |-> 8192, HEAT |-> 12288,
     UNKNOWN04 |-> 16384, UNKNOWN05 |-> 20480, UNKNOWN06 |-> 24576,
     UNKNOWN07 |-> 28672, UNKNOWN08 |-> 32768, UNKNOWN09 |-> 36864,
     UNKNOWN10 |-> 40960, UNKNOWN11 |-> 45056, UNKNOWN12 |-> 49152,
     UNKNOWN13 |-> 53248, UNKNOWN14 |-> 57344, UNKNOWN15 |-> 61440]

FANSPEEDMODE ==
    [UNKNOWN00 |-> 0, MINIMUM |-> 16, MEDIUM |-> 32, MAXIMUM |-> 48,
     UNKNOWN04 |-> 64, UNKNOWN05 |-> 80, UNKNOWN06 |-> 96, UNKNOWN07 |-> 112,
     UNKNOWN08 |-> 128, UNKNOWN09 |-> 144, AUTO |-> 160, UNKNOWN11 |-> 176,
     UNKNOWN12 |-> 192, UNKNOWN13 |-> 208, UNKNOWN14 |-> 224, UNKNOWN15 |-> 240]

SWINGMODE ==
    [UNKNOWN00 |-> 0, UNKNOWN01 |-> 1, UNKNOWN02 |-> 2, UNKNOWN03 |-> 3,
     UNKNOWN04 |-> 4, UNKNOWN05 |-> 5, UNKNOWN06 |-> 6, UNKNOWN07 |-> 7,
     UNKNOWN08 |-> 8, UNKNOWN09 |-> 9, UNKNOWN10 |-> 10, UNKNOWN11 |-> 11,
     UNKNOWN12 |-> 12, UNKNOWN13 |-> 13, UNKNOWN14 |-> 14, UNKNOWN15 |-> 15]

EnumTable(cls) ==
    CASE cls = "OPERATINGMODE" -> OPERATINGMODE
      [] cls = "FANSPEEDMODE"  -> FANSPEEDMODE
      [] cls = "SWINGMODE"     -> SWINGMODE

EnumClasses == {"OPERATINGMODE", "FANSPEEDMODE", "SWINGMODE"}

\* an object: an enum member is [cls |-> its Enum class, name |-> its name];
\* any other object (None, ...) has cls = its type's name
Member(cls, name) == [cls |-> cls, name |-> name]

Members(cls) == {Member(cls, n) : n \in DOMAIN EnumTable(cls)}

IsMember(obj, cls) == obj.cls = cls /\ obj.name \in DOMAIN EnumTable(cls)

\* member.value
ValueOf(member) == EnumTable(member.cls)[member.name]

(***************************************************************************)
(* Arguments handed to the setters: a Python value of some type            *)
(***************************************************************************)
NoneObj == [cls |-> "NoneType", name |-> "None"]

StrArg(s) == [kind |-> "str", str |-> s, int |-> 0, obj |-> NoneObj]

IntArg(i) == [kind |-> "int", str |-> "", int |-> i, obj |-> NoneObj]

ObjArg(o) == [kind |-> "obj", str |-> "", int |-> 0, obj |-> o]

Ok(v) == [ok |-> TRUE, exc |-> "", val |-> v]

Raise(e) == [ok |-> FALSE, exc |-> e, val |-> NoneObj]

\* Enum[name]: KeyError when there is no member of that name
EnumByName(cls, name) ==
    IF name \in DOMAIN EnumTable(cls)
    THEN Ok(Member(cls, name))
    ELSE Raise("KeyError")

\* Enum(value): ValueError when there is no member of that value
EnumByValue(cls, v) ==
    IF \E n \in DOMAIN EnumTable(cls) : EnumTable(cls)[n] = v
    THEN Ok(Member(cls, CHOOSE n \in DOMAIN EnumTable(cls) : EnumTable(cls)[n] = v))
    ELSE Raise("ValueError")

(***************************************************************************)
(* ACRemote.Status                                                         *)
(***************************************************************************)
\* width of the status word
StatusBits == 16

StatusCodes == 0 .. (2 ^ StatusBits - 1)

\* lowest and highest supported target temperature (Celsius)
TempMin == 16

TempMax == 31

\* LOOKinRemote.celsius2Fahrenheit, in fifths of a degree: F = (9 C + 160) / 5
celsius2Fahrenheit(temp_C) == temp_C * 9 + 160

SetOk(self) == [ok |-> TRUE, exc |-> "", self |-> self]

SetRaise(self, e) == [ok |-> FALSE, exc |-> e, self |-> self]

\* Status.operatingModeSet(operatingMode)
operatingModeSet(self, arg) ==
    LET conv == CASE arg.kind = "str" -> EnumByName("OPERATINGMODE", arg.str)
                  [] arg.kind = "int" -> EnumByValue("OPERATINGMODE", arg.int)
                  [] OTHER            -> Ok(arg.obj)
    IN  IF ~conv.ok THEN SetRaise(self, conv.exc)
        ELSE IF ~IsMember(conv.val, "OPERATINGMODE") THEN SetRaise(self, "ValueError")
        ELSE SetOk([self EXCEPT !.operatingMode = conv.val])

\* tempTargetSet with the two comparisons made inclusive: 16 and 31 rejected
tempTargetSet_mutInclusive(self, tempTarget_C) ==
    IF TempMax <= tempTarget_C \/ TempMin >= tempTarget_C
    THEN SetRaise(self, "ValueError")
    ELSE SetOk([self EXCEPT !.tempTarget_C = tempTarget_C,
                            !.tempTarget_F = celsius2Fahrenheit(tempTarget_C)])

\* Status.tempTargetSet(tempTarget_C), tempTarget_C an int
tempTargetSet(self, tempTarget_C) ==
    IF TempMax < tempTarget_C \/ TempMin > tempTarget_C
    THEN SetRaise(self, "ValueError")
    ELSE LET t == MinOf(TempMax, MaxOf(TempMin, tempTarget_C))
         IN  SetOk([self EXCEPT !.tempTarget_C = t,
                                !.tempTarget_F = celsius2Fahrenheit(t)])

\* Status.fanSpeedModeSet(fanSpeedMode): any object that is neither str nor
\* int is stored as it is
fanSpeedModeSet(self, arg) ==
    LET conv == CASE arg.kind = "str" -> EnumByName("FANSPEEDMODE", arg.str)
                  [] arg.kind = "int" -> EnumByValue("FANSPEEDMODE", arg.int)
                  [] OTHER            -> Ok(arg.obj)
    IN  IF ~conv.ok THEN SetRaise(self, conv.exc)
        ELSE SetOk([self EXCEPT !.fanSpeedMode = conv.val])

\* Status.swingModeSet(swingMode): any object that is neither str nor int is
\* stored as it is
swingModeSet(self, arg) ==
    LET conv == CASE arg.kind = "str" -> EnumByName("SWINGMODE", arg.str)
                  [] arg.kind = "int" -> EnumByValue("SWINGMODE", arg.int)
                  [] OTHER            -> Ok(arg.obj)
    IN  IF ~conv.ok THEN SetRaise(self, conv.exc)
        ELSE SetOk([self EXCEPT !.swingMode = conv.val])

\* the class attributes of a Status before __init__ ran (all None)
BlankStatus ==
    [operatingMode |-> NoneObj, tempTarget_C |-> -1, tempTarget_F |-> -1,
     fanSpeedMode |-> NoneObj, swingMode |-> NoneObj]

\* Status.__init__: the four setters in order; the first one that raises ends
\* the construction
StatusInit(operatingMode, tempTarget_C, fanSpeedMode, swingMode) ==
    LET s1 == operatingModeSet(BlankStatus, operatingMode)
        s2 == tempTargetSet(s1.self, tempTarget_C)
        s3 == fanSpeedModeSet(s2.self, fanSpeedMode)
        s4 == swingModeSet(s3.self, swingMode)
    IN  IF ~s1.ok THEN SetRaise(BlankStatus, s1.exc)
        ELSE IF ~s2.ok THEN SetRaise(BlankStatus, s2.exc)
        ELSE IF ~s3.ok THEN SetRaise(BlankStatus, s3.exc)
        ELSE IF ~s4.ok THEN SetRaise(BlankStatus, s4.exc)
        ELSE s4

\* fromStatusBytes without the + 16 on the temperature field
fromStatusBytes_mutNoOffset(statusBytes) ==
    StatusInit(IntArg(BitAnd(statusBytes, 61440)),
               BitAnd(statusBytes, 3840) \div 256,
               IntArg(BitAnd(statusBytes, 240)),
               IntArg(BitAnd(statusBytes, 15)))

\* Status.fromStatusBytes(statusBytes), statusBytes an int
fromStatusBytes(statusBytes) ==
    StatusInit(IntArg(BitAnd(statusBytes, 61440)),
               (BitAnd(statusBytes, 3840) \div 256) + 16,
               IntArg(BitAnd(statusBytes, 240)),
               IntArg(BitAnd(statusBytes, 15)))

\* toStatusBytes with the temperature shifted by 4 bits instead of 8
toStatusBytes_mutShift4(self) ==
    BitOr(BitOr(BitOr(ValueOf(self.operatingMode),
                      (self.tempTarget_C - 16) * 16),
                ValueOf(self.fanSpeedMode)),
          ValueOf(self.swingMode))

\* Status.toStatusBytes(); defined for a status whose mode fields are enum
\* members
toStatusBytes(self) ==
    BitOr(BitOr(BitOr(ValueOf(self.operatingMode),
                      (self.tempTarget_C - 16) * 256),
                ValueOf(self.fanSpeedMode)),
          ValueOf(self.swingMode))

\* Status.__eq__ for two Status objects: `is` on each field (enum members are
\* singletons and CPython keeps one object per small int)
StatusEq(self, other) ==
    /\ other.operatingMode = self.operatingMode
    /\ other.tempTarget_C = self.tempTarget_C
    /\ other.fanSpeedMode = self.fanSpeedMode
    /\ other.swingMode = self.swingMode

\* Status('OFF', 23, 'AUTO', 'UNKNOWN00'), the default of ACRemote._remoteDataSet
DefaultStatus ==
    StatusInit(StrArg("OFF"), 23, StrArg("AUTO"), StrArg("UNKNOWN00")).self

(***************************************************************************)
(* Scenario 1: the status word codec.                                      *)
(*   start --fromStatusBytes(x)--> decoded --toStatusBytes--> reencoded    *)
(*   start --Status(m,t,f,s)--> built --toStatusBytes--> encoded           *)
(*         --fromStatusBytes--> redecoded                                  *)
(***************************************************************************)
NoCall == [op |-> "", arg |-> ObjArg(NoneObj)]

\* temperatures handed to the constructor and to tempTargetSet
TempArgs == (TempMin - TempMargin) .. (TempMax + TempMargin)

CodecIdle ==
    /\ cpc = "idle"
    /\ codeIn = 0
    /\ status = BlankStatus
    /\ codeOut = 0
    /\ status2 = BlankStatus
    /\ exc = ""
    /\ lastCall = NoCall

CodecInit ==
    /\ cpc = "start"
    /\ codeIn = 0
    /\ status = BlankStatus
    /\ codeOut = 0
    /\ status2 = BlankStatus
    /\ exc = ""
    /\ lastCall = NoCall

\* s = Status.fromStatusBytes(x)
FromStatusBytesCall ==
    /\ cpc = "start"
    /\ \E x \in StatusCodes :
         LET r == fromStatusBytes(x)
         IN  /\ codeIn' = x
             /\ status' = r.self
             /\ exc' = r.exc
             /\ cpc' = IF r.ok THEN "decoded" ELSE "decodeRaised"
    /\ UNCHANGED <<codeOut, status2, lastCall, simVars, groupVars, acVars, dumpVars, fnVars>>

\* s = Status(m, t, f, s) with enum members and an int temperature
StatusInitCall ==
    /\ cpc = "start"
    /\ \E m \in Members("OPERATINGMODE"), t \in TempArgs,
          f \in Members("FANSPEEDMODE"), w \in Members("SWINGMODE") :
         LET r == StatusInit(ObjArg(m), t, ObjArg(f), ObjArg(w))
         IN  /\ status' = r.self
             /\ exc' = r.exc
             /\ cpc' = IF r.ok THEN "built" ELSE "initRaised"
    /\ UNCHANGED <<codeIn, codeOut, status2, lastCall, simVars, groupVars, acVars, dumpVars, fnVars>>

\* code = s.toStatusBytes()
ToStatusBytesCall ==
    /\ cpc \in {"decoded", "built"}
    /\ codeOut' = toStatusBytes(status)
    /\ cpc' = IF cpc = "decoded" THEN "reencoded" ELSE "encoded"
    /\ UNCHANGED <<codeIn, status, status2, exc, lastCall, simVars, groupVars, acVars, dumpVars, fnVars>>

\* s2 = Status.fromStatusBytes(code)
RedecodeCall ==
    /\ cpc = "encoded"
    /\ LET r == fromStatusBytes(codeOut)
       IN  /\ status2' = r.self
           /\ exc' = r.exc
           /\ cpc' = IF r.ok THEN "redecoded" ELSE "redecodeRaised"
    /\ UNCHANGED <<codeIn, status, codeOut, lastCall, simVars, groupVars, acVars, dumpVars, fnVars>>

(***************************************************************************)
(* Scenario 2: the setters of a live Status object, starting from the      *)
(* default status of ACRemote._remoteDataSet.                              *)
(***************************************************************************)
SampleNames(cls) ==
    CASE cls = "OPERATINGMODE" -> {"COOL", "HEAT"}
      [] cls = "FANSPEEDMODE"  -> {"MINIMUM", "UNKNOWN15"}
      [] cls = "SWINGMODE"     -> {"UNKNOWN01", "UNKNOWN15"}

\* arguments of a mode setter: members, names and codes of its own enumeration,
\* and values that are none of these
ModeArgs(cls) ==
    {ObjArg(Member(cls, n)) : n \in SampleNames(cls)}
    \cup {StrArg(n) : n \in SampleNames(cls)}
    \cup {IntArg(EnumTable(cls)[n]) : n \in SampleNames(cls)}
    \cup {StrArg("BOGUS"), IntArg(70000), ObjArg(NoneObj)}
    \cup {ObjArg(Member(c, "UNKNOWN04")) : c \in EnumClasses \ {cls}}

SetterInit ==
    /\ cpc = "object"
    /\ codeIn = 0
    /\ status = DefaultStatus
    /\ codeOut = 0
    /\ status2 = BlankStatus
    /\ exc = ""
    /\ lastCall = NoCall

Apply(r, op, arg) ==
    /\ status' = r.self
    /\ exc' = r.exc
    /\ lastCall' = [op |-> op, arg |-> arg]
    /\ UNCHANGED <<cpc, codeIn, codeOut, status2, simVars, groupVars, acVars, dumpVars, fnVars>>

OperatingModeSetCall ==
    /\ cpc = "object"
    /\ \E arg \in ModeArgs("OPERATINGMODE") :
         Apply(operatingModeSet(status, arg), "operatingModeSet", arg)

TempTargetSetCall ==
    /\ cpc = "object"
    /\ \E t \in TempArgs :
         Apply(tempTargetSet(status, t), "tempTargetSet", IntArg(t))

FanSpeedModeSetCall ==
    /\ cpc = "object"
    /\ \E arg \in ModeArgs("FANSPEEDMODE") :
         Apply(fanSpeedModeSet(status, arg), "fanSpeedModeSet", arg)

SwingModeSetCall ==
    /\ cpc = "object"
    /\ \E arg \in ModeArgs("SWINGMODE") :
         Apply(swingModeSet(status, arg), "swingModeSet", arg)

(***************************************************************************)
(* IRRemoteCommandRaw: a command is modelled by its `_sequence`, a tuple   *)
(* of ints.  Distinct command objects are told apart by their position in  *)
(* the list that holds them (id()).                                        *)
(***************************************************************************)
\* sampleDiffThreshold = 0.10 and commandDiffThreshold = 0.02, in percent
SampleDiffThresholdPct == 10

CommandDiffThresholdPct == 2

\* hash() of an int of small magnitude: the int itself, but hash(-1) == -2
IntHash(x) == IF x = -1 THEN -2 ELSE x

\* hash(sequence) of a tuple of ints: CPython mixes the hashes of the items in
\* order; the 64-bit mixing is modelled as injective on the item hashes
SeqHash(sequence) == [i \in 1 .. Len(sequence) |-> IntHash(sequence[i])]

\* __eq__ left at object identity: two distinct command objects never equal
CommandEq_mutIdentity(self, other) == FALSE

\* IRRemoteCommandRaw.__eq__ between two IRRemoteCommandRaw objects
CommandEq(self, other) == SeqHash(self) = SeqHash(other)

\* IRRemoteCommandRaw._compare(lhs, rhs): "True", "False", or the exception
\* it raises.  pctDiff > 0.10 and 0.02 >= commandDiffPct are evaluated on the
\* exact quotients.  The length-gated isMatch is only printed, not returned.
Compare(l, r) ==
    LET zipped     == 1 .. MinOf(Len(l), Len(r))
        samplesNum == MaxOf(Len(l), Len(r))
        differing  == {i \in zipped :
                         100 * Abs(Abs(l[i]) - Abs(r[i]))
                           > SampleDiffThresholdPct * (Abs(l[i]) + Abs(r[i]))}
        samplesNumDiff == Abs(Len(l) - Len(r)) + Cardinality(differing)
    IN  IF \E i \in zipped : Abs(l[i]) + Abs(r[i]) = 0 THEN "ZeroDivisionError"
        ELSE IF samplesNum = 0 THEN "ZeroDivisionError"
        ELSE IF CommandDiffThresholdPct * samplesNum >= 100 * samplesNumDiff
             THEN "True"
             ELSE "False"

\* IRRemoteCommandRaw.isSimilar(rhs): `self == rhs or _compare(self, rhs)`
isSimilar(self, other) ==
    IF CommandEq(self, other) THEN "True" ELSE Compare(self, other)

(***************************************************************************)
(* Scenario 3: one call lhs.isSimilar(rhs)                                 *)
(***************************************************************************)
\* short signals have at most MaxShortLen samples
MaxShortLen == 2

\* long signals have about k * 100 / CommandDiffThresholdPct samples, k up to
\* MaxLongFactor, of which the first 0..MaxLongDiff are off by more than 10%
MaxLongFactor == 2

MaxLongDiff == 3

SampleValues == {-2, -1, 0, 90, 110, 135}

ShortSignals == UNION {[1 .. n -> SampleValues] : n \in 0 .. MaxShortLen}

LongLens ==
    {k * (100 \div CommandDiffThresholdPct) + e :
        k \in 1 .. MaxLongFactor, e \in {-1, 0, 1}}

\* marks and spaces alternate in sign; the first d samples are 135 us long,
\* the others 110 us
LongSignal(n, d) ==
    [i \in 1 .. n |-> (IF i % 2 = 1 THEN 1 ELSE -1) * (IF i <= d THEN 135 ELSE 110)]

LongSignals == {LongSignal(n, d) : n \in LongLens, d \in 0 .. MaxLongDiff}

SignalPool == ShortSignals \cup LongSignals

SimIdle ==
    /\ spc = "idle"
    /\ lhs = << >>
    /\ rhs = << >>
    /\ simResult = ""
    /\ compareCalled = FALSE

SimInit ==
    /\ spc = "start"
    /\ lhs \in SignalPool
    /\ rhs \in SignalPool
    /\ simResult = ""
    /\ compareCalled = FALSE

\* simResult = lhs.isSimilar(rhs)
IsSimilarCall ==
    /\ spc = "start"
    /\ simResult' = isSimilar(lhs, rhs)
    /\ compareCalled' = ~CommandEq(lhs, rhs)
    /\ spc' = "done"
    /\ UNCHANGED <<lhs, rhs, codecVars, groupVars, acVars, dumpVars, fnVars>>

(***************************************************************************)
(* IRRemoteCommandRaw._groupCommands(irRemoteCommands, minMatches)         *)
(***************************************************************************)
\* rank of the pair (i, j), i < j, in combinations(range(1..n), 2)
PairRank(n, i, j) == (i - 1) * n - ((i * (i - 1)) \div 2) + (j - i)

NumPairs(n) == (n * (n - 1)) \div 2

\* combinations(irRemoteCommands, 2) as a sequence of pairs of ids
Combinations2(n) ==
    [k \in 1 .. NumPairs(n) |->
        CHOOSE p \in (1 .. n) \X (1 .. n) :
            p[1] < p[2] /\ PairRank(n, p[1], p[2]) = k]

\* position in the dict retCommands of the entry whose key equals (==, hash)
\* the command cmds[id]; 0 when there is none
DictPos(rc, cmds, id) ==
    IF \E p \in 1 .. Len(rc) : CommandEq(cmds[rc[p].key], cmds[id])
    THEN CHOOSE p \in 1 .. Len(rc) : CommandEq(cmds[rc[p].key], cmds[id])
    ELSE 0

GroupOk(rc, ri) == [exc |-> "", rc |-> rc, ri |-> ri]

GroupRaise(e, rc, ri) == [exc |-> e, rc |-> rc, ri |-> ri]

\* the append forgotten: only the id is recorded
AppendTo_mutNoAppend(rc, ri, cmds, owner, other) ==
    IF other \in ri[owner] THEN GroupOk(rc, ri)
    ELSE GroupOk(rc, [ri EXCEPT ![owner] = @ \cup {other}])

\* retCommands[owner].append(other); retIDs[id(owner)].add(id(other)),
\* done when id(other) is not yet in retIDs[id(owner)]
AppendTo(rc, ri, cmds, owner, other) ==
    IF other \in ri[owner] THEN GroupOk(rc, ri)
    ELSE LET p == DictPos(rc, cmds, owner)
         IN  IF p = 0 THEN GroupRaise("KeyError", rc, ri)
             ELSE GroupOk([rc EXCEPT ![p].members = Append(@, other)],
                          [ri EXCEPT ![owner] = @ \cup {other}])

\* the new group made as a set of commands ({lhs, rhs}, by hash and ==): two
\* captures of equal content collapse into one member
NewGroup_mutSet(rc, ri, cmds, i, j) ==
    LET p == DictPos(rc, cmds, i)
        members == IF CommandEq(cmds[i], cmds[j]) THEN <<i>> ELSE <<i, j>>
    IN  GroupOk(IF p = 0
                THEN Append(rc, [key |-> i, members |-> members])
                ELSE [rc EXCEPT ![p].members = members],
                (i :> {i, j}) @@ ri)

\* retCommands[lhs] = [lhs, rhs]; retIDs[id(lhs)] = {id(lhs), id(rhs)}
NewGroup(rc, ri, cmds, i, j) ==
    LET p == DictPos(rc, cmds, i)
    IN  GroupOk(IF p = 0
                THEN Append(rc, [key |-> i, members |-> <<i, j>>])
                ELSE [rc EXCEPT ![p].members = <<i, j>>],
                (i :> {i, j}) @@ ri)

\* the loop with the test on the key left out: every existing group gets
\* the pair
RECURSIVE KeyLoop_mutAllKeys(_, _, _, _, _, _, _)
KeyLoop_mutAllKeys(rc, ri, cmds, i, j, p, matchFound) ==
    IF p > Len(rc)
    THEN IF matchFound THEN GroupOk(rc, ri) ELSE NewGroup(rc, ri, cmds, i, j)
    ELSE LET key  == rc[p].key
             members1 == IF i \notin ri[key] THEN Append(rc[p].members, i)
                         ELSE rc[p].members
             ids1     == ri[key] \cup {i}
             members2 == IF j \notin ids1 THEN Append(members1, j) ELSE members1
         IN  KeyLoop_mutAllKeys([rc EXCEPT ![p].members = members2],
                                [ri EXCEPT ![key] = ids1 \cup {j}],
                                cmds, i, j, p + 1, TRUE)

\* `for key in retCommands.keys()` from position p on: every key similar to
\* lhs or to rhs gets both (no break); then `if not matchFound` a new group
RECURSIVE KeyLoop(_, _, _, _, _, _, _)
KeyLoop(rc, ri, cmds, i, j, p, matchFound) ==
    IF p > Len(rc)
    THEN IF matchFound THEN GroupOk(rc, ri) ELSE NewGroup(rc, ri, cmds, i, j)
    ELSE LET key  == rc[p].key
             simL == isSimilar(cmds[key], cmds[i])
             simR == IF simL = "True" THEN "True" ELSE isSimilar(cmds[key], cmds[j])
         IN  IF simL \notin {"True", "False"} THEN GroupRaise(simL, rc, ri)
             ELSE IF simR \notin {"True", "False"} THEN GroupRaise(simR, rc, ri)
             ELSE IF simR = "True"
             THEN LET addL    == i \notin ri[key]
                      members1 == IF addL THEN Append(rc[p].members, i)
                                  ELSE rc[p].members
                      ids1     == ri[key] \cup {i}
                      addR     == j \notin ids1
                      members2 == IF addR THEN Append(members1, j) ELSE members1
                      ids2     == ids1 \cup {j}
                  IN  KeyLoop([rc EXCEPT ![p].members = members2],
                              [ri EXCEPT ![key] = ids2],
                              cmds, i, j, p + 1, TRUE)
             ELSE KeyLoop(rc, ri, cmds, i, j, p + 1, matchFound)

\* `if lhs.isSimilar:` (the bound method, always true) instead of the call
GroupPair_mutNoCall(rc, ri, cmds, i, j) ==
    IF i \in DOMAIN ri THEN AppendTo(rc, ri, cmds, i, j)
    ELSE IF j \in DOMAIN ri THEN AppendTo(rc, ri, cmds, j, i)
    ELSE KeyLoop(rc, ri, cmds, i, j, 1, FALSE)

\* the body of the loop over the pairs, for the pair (lhs, rhs) = (i, j)
GroupPair(rc, ri, cmds, i, j) ==
    LET sim == isSimilar(cmds[i], cmds[j])
    IN  IF sim \notin {"True", "False"} THEN GroupRaise(sim, rc, ri)
        ELSE IF sim = "False" THEN GroupOk(rc, ri)
        ELSE IF i \in DOMAIN ri THEN AppendTo(rc, ri, cmds, i, j)
        ELSE IF j \in DOMAIN ri THEN AppendTo(rc, ri, cmds, j, i)
        ELSE KeyLoop(rc, ri, cmds, i, j, 1, FALSE)

\* the deletion with <= in place of <
DeleteSmall_mutInclusive(rc, m) ==
    LET Keep(e) == ~(Len(e.members) <= m)
    IN  SelectSeq(rc, Keep)

\* the groups with fewer than minMatches members are deleted
DeleteSmall(rc, m) ==
    LET Keep(e) == ~(Len(e.members) < m)
    IN  SelectSeq(rc, Keep)

(***************************************************************************)
(* IRRemoteFunction                                                        *)
(***************************************************************************)
\* the argument `irRemoteCommands` of IRRemoteFunction.__init__: one command
\* object, None, or an iterable of objects; a command object is its id
\* notCommands holds the positions of the items that are no IRRemoteCommand
CommandArg(id) == [kind |-> "command", items |-> <<id>>, notCommands |-> {}]

NoneArg == [kind |-> "None", items |-> << >>, notCommands |-> {}]

\* IRRemoteFunction.TYPE: name -> value
TYPE == [SINGLE |-> "single", TOGGLE |-> "toggle"]

\* IRRemoteFunction.TYPE[name]
TypeByName(name) ==
    IF name \in DOMAIN TYPE THEN Ok(Member("TYPE", name)) ELSE Raise("KeyError")

\* IRRemoteFunction.TYPE(value)
TypeByValue(arg) ==
    IF arg.kind = "str" /\ \E n \in DOMAIN TYPE : TYPE[n] = arg.str
    THEN Ok(Member("TYPE", CHOOSE n \in DOMAIN TYPE : TYPE[n] = arg.str))
    ELSE Raise("ValueError")

\* the conversion of the argument `functionType` at the top of __init__
TypeOf(functionType) ==
    IF functionType = ObjArg(NoneObj) THEN Raise("ValueError")
    ELSE IF functionType.kind = "obj" /\ functionType.obj.cls = "TYPE"
    THEN Ok(functionType.obj)
    ELSE TypeByValue(functionType)

FunctionOk(t, cmds) ==
    [outcome |-> "returned", exc |-> "", functionType |-> t, irCommands |-> cmds]

FunctionRaise(e) ==
    [outcome |-> "raised", exc |-> e, functionType |-> "", irCommands |-> << >>]

\* __init__ without the comparison of the two lengths
IRRemoteFunctionInit_mutNoArity(arg, functionType) ==
    LET t == TypeOf(functionType)
    IN  IF ~t.ok THEN FunctionRaise(t.exc)
        ELSE IF arg.kind = "None" THEN FunctionRaise("TypeError")
        ELSE IF arg.notCommands # {} THEN FunctionRaise("ValueError")
        ELSE FunctionOk(t.val.name, arg.items)

\* IRRemoteFunction.__init__(functionName, irRemoteCommands, functionType):
\* a lone command is wrapped into a 1-tuple (CommandArg), functionType is
\* converted, len(None) raises TypeError, a length other than the type's
\* raises ValueError, and so does an item that is no IRRemoteCommand
IRRemoteFunctionInit(arg, functionType) ==
    LET t == TypeOf(functionType)
        lenExp == CASE t.val.name = "SINGLE" -> {1}
                    [] t.val.name = "TOGGLE" -> {2}
                    [] OTHER                 -> {}
    IN  IF ~t.ok THEN FunctionRaise(t.exc)
        ELSE IF arg.kind = "None" THEN FunctionRaise("TypeError")
        ELSE IF lenExp # {} /\ Len(arg.items) \notin lenExp THEN FunctionRaise("ValueError")
        ELSE IF arg.notCommands # {} THEN FunctionRaise("ValueError")
        ELSE FunctionOk(t.val.name, arg.items)

\* the selection with the comparison turned round: the smallest group wins
RECURSIVE MostCommon_mutSmallest(_, _, _)
MostCommon_mutSmallest(rc, p, best) ==
    IF p > Len(rc) THEN best
    ELSE IF best = 0 \/ Len(rc[best].members) > Len(rc[p].members)
         THEN MostCommon_mutSmallest(rc, p + 1, p)
         ELSE MostCommon_mutSmallest(rc, p + 1, best)

\* the selection loop of fromIRSensor over irCommandGroups.items(), from
\* position p on; best is the position of irCommandMostCommon, 0 for None
RECURSIVE MostCommon(_, _, _)
MostCommon(rc, p, best) ==
    IF p > Len(rc) THEN best
    ELSE IF best = 0 \/ Len(rc[best].members) < Len(rc[p].members)
         THEN MostCommon(rc, p + 1, p)
         ELSE MostCommon(rc, p + 1, best)

\* the end of fromIRSensor: select, then build the function that is returned
LearnFunction(rc) ==
    LET best == MostCommon(rc, 1, 0)
    IN  IRRemoteFunctionInit(IF best = 0 THEN NoneArg ELSE CommandArg(rc[best].key),
                             ObjArg(Member("TYPE", "SINGLE")))

(***************************************************************************)
(* Scenario 4: IRRemoteFunction.fromIRSensor, from the list of commands    *)
(* made of what sensorDump returned (non-empty captures only), through     *)
(* _groupCommands pair by pair, to the function it returns.                *)
(***************************************************************************)
\* at most MaxSignals captures in a session
MaxSignals == 4

\* _groupCommands is called with minMatches in 1..MaxMinMatches
MaxMinMatches == 3

\* the default of the parameter minMatches, the one fromIRSensor uses
DefaultMinMatches == 2

\* 100 ~ 115 and 115 ~ 135 are similar, 100 and 135 are not; <<0, 100>> and
\* <<0, 300>> are similar to none of these, and comparing them with each
\* other divides by zero
GroupPool == {<<100>>, <<115>>, <<135>>, <<0, 100>>, <<0, 300>>}

EmptyDict == [x \in {} |-> {}]

NoFunction == [outcome |-> "", exc |-> "", functionType |-> "", irCommands |-> << >>]

GroupIdle ==
    /\ gpc = "idle"
    /\ irCommands = << >>
    /\ minMatches = DefaultMinMatches
    /\ pairIdx = 1
    /\ retCommands = << >>
    /\ retIDs = EmptyDict
    /\ learned = NoFunction

GroupInit ==
    /\ gpc = "grouping"
    /\ irCommands \in UNION {[1 .. n -> GroupPool] : n \in 0 .. MaxSignals}
    /\ minMatches \in 1 .. MaxMinMatches
    /\ pairIdx = 1
    /\ retCommands = << >>
    /\ retIDs = EmptyDict
    /\ learned = NoFunction

\* one iteration of `for (lhs, rhs) in combinations(irRemoteCommands, 2)`
GroupStep ==
    /\ gpc = "grouping"
    /\ pairIdx <= NumPairs(Len(irCommands))
    /\ LET pair == Combinations2(Len(irCommands))[pairIdx]
           r    == GroupPair(retCommands, retIDs, irCommands, pair[1], pair[2])
       IN  IF r.exc = ""
           THEN /\ retCommands' = r.rc
                /\ retIDs' = r.ri
                /\ pairIdx' = pairIdx + 1
                /\ UNCHANGED <<gpc, learned>>
           ELSE \* the exception leaves _groupCommands and its caller
                /\ gpc' = "raised"
                /\ learned' = FunctionRaise(r.exc)
                /\ UNCHANGED <<retCommands, retIDs, pairIdx>>
    /\ UNCHANGED <<irCommands, minMatches, codecVars, simVars, acVars, dumpVars, fnVars>>

\* the loop is over: delete the small groups and return retCommands
GroupReturn ==
    /\ gpc = "grouping"
    /\ pairIdx > NumPairs(Len(irCommands))
    /\ retCommands' = DeleteSmall(retCommands, minMatches)
    /\ gpc' = "grouped"
    /\ UNCHANGED <<irCommands, minMatches, pairIdx, retIDs, learned, codecVars, simVars, acVars, dumpVars, fnVars>>

\* fromIRSensor (which calls _groupCommands(irCommands)) selects and returns
LearnReturn ==
    /\ gpc = "grouped"
    /\ minMatches = DefaultMinMatches
    /\ learned' = LearnFunction(retCommands)
    /\ gpc' = "done"
    /\ UNCHANGED <<irCommands, minMatches, pairIdx, retCommands, retIDs,
                    codecVars, simVars, acVars, dumpVars, fnVars>>

(***************************************************************************)
(* ACRemote: operatingModeSet, tempSet, fanSpeedModeSet, swingModeSet,     *)
(* statusRefresh and statusSet, for the two source files that hold them:   *)
(*   "current"  src/src/pylookinremote/pylookinremote.py                   *)
(*   "legacy"   src/pylookinremote.py                                      *)
(* The text of these methods is the same in both; the classes around them  *)
(* differ in the attributes they define.                                   *)
(***************************************************************************)
Builds == {"current", "legacy"}

\* `retries = 5`
Retries == 5

\* `timeout = time.time() + 30`
PollWindow == 30

\* `time.sleep(5)`
PollInterval == 5

\* `'Status' in self._remoteData` is false: the device data has no status
NoStatusKey == -1

\* the methods of LOOKinRemote that carry the GET request and the remote's
\* data: _get and remoteData in the legacy file, _api_get and
\* api_data_uuid_GET in the current one
LOOKinRemoteAttrs(b) ==
    IF b = "legacy" THEN {"_get", "remoteData"}
                    ELSE {"_api_get", "api_data_uuid_GET"}

\* the attributes of an ACRemote object: the class attributes of IRRemote and
\* what IRRemote.__init__ and ACRemote._remoteDataSet assign
ACRemoteAttrs ==
    {"uuid", "name", "rType", "updated", "functions",
     "_lookinRemote", "_rootData", "_remoteData",
     "_extra", "_status", "_statusLast"}

\* the names a method body can read: its parameters
Parameters(method) ==
    CASE method = "fanSpeedModeSet" -> {"self", "fanSpeedMode"}
      [] method = "swingModeSet"    -> {"self", "swingMode"}
      [] OTHER                      -> {"self"}

\* ACRemote._remoteDataSet(remoteData): the new self._status
remoteDataSet(statusCode) ==
    IF statusCode = NoStatusKey THEN DefaultStatus
                                ELSE fromStatusBytes(statusCode).self

RefreshOk(s) == [ok |-> TRUE, exc |-> "", fetched |-> TRUE, status |-> s]

RefreshRaise(e, fetched) ==
    [ok |-> FALSE, exc |-> e, fetched |-> fetched, status |-> BlankStatus]

\* ACRemote.statusRefresh():
\*   self._remoteDataSet(self._lookinRemote.remoteData(self._uuid))
\* The method is looked up, then the argument is evaluated, then the request
\* is made; io is what the request does once it is made.
statusRefresh(b, statusCode, io) ==
    IF "remoteData" \notin LOOKinRemoteAttrs(b) THEN RefreshRaise("AttributeError", FALSE)
    ELSE IF "_uuid" \notin ACRemoteAttrs THEN RefreshRaise("AttributeError", FALSE)
    ELSE IF io # "ok" THEN RefreshRaise(io, TRUE)
    ELSE RefreshOk(remoteDataSet(statusCode))

\* what urlopen does with a request
IoResults == {"ok", "URLError", "socket.timeout", "ConnectionResetError"}

\* status codes the device reports when the remote object is made
DeviceCodes == {0, 6048, 9984, 16191}

\* Status objects a caller hands to statusSet
TargetPool == {fromStatusBytes(c).self : c \in DeviceCodes}

AcIdle ==
    /\ apc = "idle"
    /\ build = "current"
    /\ acCall = NoCall
    /\ statusBefore = BlankStatus
    /\ cached = BlankStatus
    /\ target = BlankStatus
    /\ reported = NoStatusKey
    /\ lastDecoded = BlankStatus
    /\ submissions = 0
    /\ polls = 0
    /\ now = 0
    /\ timeout = 0
    /\ tryNum = 0
    /\ acOutcome = ""

\* an ACRemote made by LOOKinRemote._remoteGet from the device's data
AcInit ==
    /\ apc = "ready"
    /\ build \in Builds
    /\ acCall = NoCall
    /\ reported \in DeviceCodes \cup {NoStatusKey}
    /\ cached = remoteDataSet(reported)
    /\ statusBefore = cached
    /\ target = BlankStatus
    /\ lastDecoded = cached
    /\ submissions = 0
    /\ polls = 0
    /\ now = 0
    /\ timeout = 0
    /\ tryNum = 0
    /\ acOutcome = ""

\* the body of a mutator run up to the submission even when the setter raised
MutatorBody_mutNoRaise(op, arg, r) ==
    /\ apc = "ready"
    /\ acCall' = [op |-> op, arg |-> arg]
    /\ statusBefore' = cached
    /\ cached' = r.self
    /\ target' = r.self
    /\ apc' = "submit"
    /\ acOutcome' = ""
    /\ UNCHANGED <<build, reported, lastDecoded, submissions, polls, now,
                   timeout, tryNum, codecVars, simVars, groupVars, dumpVars, fnVars>>

\* the two lines of a mutator, r being what the setter of self._status did:
\*   self._status.<setter>(x)           (in place)
\*   self.statusSet(self._status)
MutatorBody(op, arg, r) ==
    /\ apc = "ready"
    /\ acCall' = [op |-> op, arg |-> arg]
    /\ statusBefore' = cached
    /\ cached' = r.self
    /\ IF r.ok
       THEN /\ target' = r.self
            /\ apc' = "submit"
            /\ acOutcome' = ""
       ELSE /\ target' = target
            /\ apc' = "ended"
            /\ acOutcome' = r.exc
    /\ UNCHANGED <<build, reported, lastDecoded, submissions, polls, now,
                   timeout, tryNum, codecVars, simVars, groupVars, dumpVars, fnVars>>

\* ACRemote.operatingModeSet(operatingMode)
ACRemote_operatingModeSet ==
    \E arg \in ModeArgs("OPERATINGMODE") :
        MutatorBody("operatingModeSet", arg, operatingModeSet(cached, arg))

\* ACRemote.tempSet(temp_C)
ACRemote_tempSet ==
    \E t \in TempArgs :
        MutatorBody("tempSet", IntArg(t), tempTargetSet(cached, t))

\* ACRemote.fanSpeedModeSet(fanSpeedMode): the body hands the name
\* `operatingMode` to the setter
ACRemote_fanSpeedModeSet ==
    \E arg \in ModeArgs("FANSPEEDMODE") :
        MutatorBody("fanSpeedModeSet", arg,
                    IF "operatingMode" \in Parameters("fanSpeedModeSet")
                    THEN fanSpeedModeSet(cached, arg)
                    ELSE SetRaise(cached, "NameError"))

\* ACRemote.swingModeSet(swingMode): the body hands the name `operatingMode`
\* to the setter
ACRemote_swingModeSet ==
    \E arg \in ModeArgs("SWINGMODE") :
        MutatorBody("swingModeSet", arg,
                    IF "operatingMode" \in Parameters("swingModeSet")
                    THEN swingModeSet(cached, arg)
                    ELSE SetRaise(cached, "NameError"))

\* ACRemote.statusSet(status) called with a Status object of the caller
ACRemote_statusSet ==
    /\ apc = "ready"
    /\ \E s \in TargetPool :
         /\ acCall' = [op |-> "statusSet", arg |-> ObjArg(NoneObj)]
         /\ target' = s
    /\ statusBefore' = cached
    /\ apc' = "submit"
    /\ UNCHANGED <<build, cached, reported, lastDecoded, submissions, polls, now,
                   timeout, tryNum, acOutcome,
                   codecVars, simVars, groupVars, dumpVars, fnVars>>

\* ACRemote.statusGet(refresh=True) / ACRemote.statusRefresh() called alone
ACRemote_statusRefresh ==
    /\ apc = "ready"
    /\ \E io \in IoResults :
         LET r == statusRefresh(build, reported, io)
         IN  /\ acCall' = [op |-> "statusRefresh", arg |-> ObjArg(NoneObj)]
             /\ statusBefore' = cached
             /\ polls' = IF r.fetched THEN polls + 1 ELSE polls
             /\ cached' = IF r.ok THEN r.status ELSE cached
             /\ lastDecoded' = IF r.ok THEN r.status ELSE lastDecoded
             /\ acOutcome' = IF r.ok THEN "returned" ELSE r.exc
    /\ apc' = "ended"
    /\ UNCHANGED <<build, target, reported, submissions, now, timeout, tryNum,
                   codecVars, simVars, groupVars, dumpVars, fnVars>>

\* statusSet, top of the for loop:
\*   self._lookinRemote._get(f'commands/ir/ac/{...}')
\*   timeout = time.time() + 30
StatusSetSubmit ==
    /\ apc = "submit"
    /\ IF "_get" \notin LOOKinRemoteAttrs(build)
       THEN /\ apc' = "ended"
            /\ acOutcome' = "AttributeError"
            /\ UNCHANGED <<submissions, timeout>>
       ELSE \E io \in IoResults :
              /\ submissions' = submissions + 1
              /\ IF io = "ok"
                 THEN /\ apc' = "window"
                      /\ timeout' = now + PollWindow
                      /\ acOutcome' = acOutcome
                 ELSE /\ apc' = "ended"
                      /\ acOutcome' = io
                      /\ timeout' = timeout
    /\ UNCHANGED <<build, acCall, statusBefore, cached, target, reported,
                   lastDecoded, polls, now, tryNum,
                   codecVars, simVars, groupVars, dumpVars, fnVars>>

\* statusSet, the test of the while loop and what follows it:
\*   while(time.time() < timeout): time.sleep(5) ...
\*   the next tryNum of range(retries), or the else of the for loop
StatusSetWindow ==
    /\ apc = "window"
    /\ IF now < timeout
       THEN /\ now' = now + PollInterval
            /\ apc' = "poll"
            /\ UNCHANGED <<tryNum, acOutcome>>
       ELSE IF tryNum + 1 < Retries
       THEN /\ tryNum' = tryNum + 1
            /\ apc' = "submit"
            /\ UNCHANGED <<now, acOutcome>>
       ELSE /\ apc' = "ended"
            /\ acOutcome' = "TimeoutError"
            /\ UNCHANGED <<now, tryNum>>
    /\ UNCHANGED <<build, acCall, statusBefore, cached, target, reported,
                   lastDecoded, submissions, polls, timeout,
                   codecVars, simVars, groupVars, dumpVars, fnVars>>

\* statusSet, the body of the while loop after the sleep:
\*   self.statusRefresh(); if self._status == status: return
StatusSetPoll ==
    /\ apc = "poll"
    /\ \E io \in IoResults :
         LET r == statusRefresh(build, reported, io)
         IN  /\ polls' = IF r.fetched THEN polls + 1 ELSE polls
             /\ cached' = IF r.ok THEN r.status ELSE cached
             /\ lastDecoded' = IF r.ok THEN r.status ELSE lastDecoded
             /\ IF ~r.ok
                THEN apc' = "ended" /\ acOutcome' = r.exc
                ELSE IF StatusEq(r.status, target)
                THEN apc' = "ended" /\ acOutcome' = "returned"
                ELSE apc' = "window" /\ acOutcome' = acOutcome
    /\ UNCHANGED <<build, acCall, statusBefore, target, reported, submissions,
                   now, timeout, tryNum,
                   codecVars, simVars, groupVars, dumpVars, fnVars>>

\* the device carries out the command it was sent: from then on it reports
\* the status of the command
DeviceApply ==
    /\ apc \in {"window", "poll"}
    /\ submissions > 0
    /\ reported # toStatusBytes(target)
    /\ reported' = toStatusBytes(target)
    /\ UNCHANGED <<apc, build, acCall, statusBefore, cached, target, lastDecoded,
                   submissions, polls, now, timeout, tryNum, acOutcome,
                   codecVars, simVars, groupVars, dumpVars, fnVars>>

(***************************************************************************)
(* LOOKinRemote.sensorDump(name, period, duration, maxSignals)             *)
(* Time is counted in ticks.  A call of self.sensor(name) takes 1 to       *)
(* MaxPollTime ticks; an iteration that makes no call takes the loop to    *)
(* the next tick.  A capture is modelled by its `Updated` stamp.           *)
(***************************************************************************)
\* time.time() when sensorDump is called (seconds since the epoch: positive)
StartTime == 1

\* `duration` is drawn from 0..MaxDuration
MaxDuration == 3

\* `period` is drawn from 0..MaxPeriod
MaxPeriod == 2

\* a call of self.sensor(name) takes 1..MaxPollTime ticks
MaxPollTime == 2

\* `maxSignals` is None or drawn from 0..MaxCap
MaxCap == 2

\* the `Updated` stamps the sensor reports are drawn from 1..MaxStamp
MaxStamp == 2

\* `maxSignals is None`
NoMax == -1

\* the initial value of `timeNext`
TimeNextInit == 0

SensorNames == {"IR", "Meteo"}

\* the exceptions of the except clause around self.sensor(name), without
\* urllib.error.URLError
CaughtErrors_mutNoURLError == {"ConnectionResetError", "socket.timeout"}

\* the exceptions of the except clause around self.sensor(name)
CaughtErrors == {"ConnectionResetError", "socket.timeout", "URLError"}

\* what self.sensor(name) does: it returns the sensor's data (for the IR
\* sensor, `Raw` empty or not, and `Updated`), or it raises; a body that is
\* not JSON makes json.loads raise JSONDecodeError
SensorResults ==
    [exc : {""}, raw : BOOLEAN, updated : 1..MaxStamp]
    \cup [exc : {"ConnectionResetError", "socket.timeout", "URLError",
                 "JSONDecodeError"},
          raw : {FALSE}, updated : {0}]

\* the test without the comparison of `Raw` with the empty string
IsNewSignal_mutNoRawTest(name, res, sigs) ==
    /\ res.exc = ""
    /\ name = "IR"
    /\ (Len(sigs) = 0 \/ sigs[Len(sigs)] # res.updated)

\* the test without the comparison with the last entry's `Updated`
IsNewSignal_mutNoDedup(name, res, sigs) ==
    /\ res.exc = ""
    /\ name = "IR"
    /\ res.raw

\* the test on a poll's data that guards signals.append(sensorData)
IsNewSignal(name, res, sigs) ==
    /\ res.exc = ""
    /\ name = "IR"
    /\ res.raw
    /\ (Len(sigs) = 0 \/ sigs[Len(sigs)] # res.updated)

\* the cap test with > in place of >=
CapReached_mutStrict(sigs, m) == m # NoMax /\ Len(sigs) > m

\* `maxSignals is not None and len(signals) >= maxSignals`
CapReached(sigs, m) == m # NoMax /\ Len(sigs) >= m

NoPoll == [exc |-> "", raw |-> FALSE, updated |-> 0]

DumpIdle ==
    /\ dpc = "idle"
    /\ dName = ""
    /\ period = 0
    /\ maxSignals = NoMax
    /\ clock = 0
    /\ timeStop = 0
    /\ timeNext = 0
    /\ signals = << >>
    /\ lastPoll = NoPoll
    /\ sensorPolls = 0
    /\ failedPolls = 0
    /\ polledWhenFull = FALSE
    /\ pollLog = << >>
    /\ signalPolls = << >>
    /\ dOutcome = ""

DumpInit ==
    /\ dpc = "ready"
    /\ dName = ""
    /\ period = 0
    /\ maxSignals = NoMax
    /\ clock = StartTime
    /\ timeStop = 0
    /\ timeNext = 0
    /\ signals = << >>
    /\ lastPoll = NoPoll
    /\ sensorPolls = 0
    /\ failedPolls = 0
    /\ polledWhenFull = FALSE
    /\ pollLog = << >>
    /\ signalPolls = << >>
    /\ dOutcome = ""

\* the call and the three assignments before the loop
SensorDumpCall ==
    /\ dpc = "ready"
    /\ dName' \in SensorNames
    /\ period' \in 0..MaxPeriod
    /\ maxSignals' \in {NoMax} \cup 0..MaxCap
    /\ \E duration \in 0..MaxDuration : timeStop' = clock + duration
    /\ timeNext' = TimeNextInit
    /\ signals' = << >>
    /\ dpc' = "loop"
    /\ UNCHANGED <<clock, lastPoll, sensorPolls, failedPolls, polledWhenFull,
                   pollLog, signalPolls,
                   dOutcome, codecVars, simVars, groupVars, acVars, fnVars>>

\* one iteration of `while time.time() < timeStop` in which self.sensor(name)
\* is called
SensorDumpPoll ==
    /\ dpc = "loop"
    /\ clock < timeStop
    /\ clock > timeNext
    /\ \E res \in SensorResults, d \in 1..MaxPollTime :
         LET next == IF period > 0 THEN clock + period ELSE timeNext
             after == clock + d
             sigs == IF IsNewSignal(dName, res, signals)
                     THEN Append(signals, res.updated) ELSE signals
         IN  /\ lastPoll' = res
             /\ sensorPolls' = sensorPolls + 1
             /\ pollLog' = Append(pollLog, res)
             /\ polledWhenFull' = (polledWhenFull
                                    \/ (maxSignals # NoMax /\ Len(signals) >= maxSignals))
             /\ timeNext' = next
             /\ IF res.exc # "" /\ res.exc \notin CaughtErrors
                THEN /\ dpc' = "raised"
                     /\ dOutcome' = res.exc
                     /\ clock' = after
                     /\ UNCHANGED <<signals, signalPolls, failedPolls>>
                ELSE /\ failedPolls' = IF res.exc # "" THEN failedPolls + 1 ELSE failedPolls
                     /\ signals' = sigs
                     /\ signalPolls' = IF IsNewSignal(dName, res, signals)
                                       THEN Append(signalPolls, sensorPolls + 1)
                                       ELSE signalPolls
                     /\ IF CapReached(sigs, maxSignals)
                        THEN /\ dpc' = "returned"
                             /\ dOutcome' = "returned"
                             /\ clock' = after
                        ELSE /\ UNCHANGED <<dpc, dOutcome>>
                             /\ clock' = IF period > 0
                                         THEN after + MaxOf(0, after - next)
                                         ELSE after
    /\ UNCHANGED <<dName, period, maxSignals, timeStop,
                   codecVars, simVars, groupVars, acVars, fnVars>>

\* the iteration with a clock that stands still
SensorDumpSkip_mutFrozenClock ==
    /\ dpc = "loop"
    /\ clock < timeStop
    /\ clock <= timeNext
    /\ IF CapReached(signals, maxSignals)
       THEN /\ dpc' = "returned"
            /\ dOutcome' = "returned"
            /\ clock' = clock
       ELSE /\ UNCHANGED <<dpc, dOutcome>>
            /\ clock' = clock
    /\ UNCHANGED <<dName, period, maxSignals, timeStop, timeNext, signals,
                   lastPoll, sensorPolls, failedPolls, polledWhenFull,
                   pollLog, signalPolls,
                   codecVars, simVars, groupVars, acVars, fnVars>>

\* one iteration in which `time.time() > timeNext` is false: no call is made
\* and sleep(max(0, time.time() - timeNext)) is sleep(0); the clock has moved
\* on by the time of the next test of the while condition
SensorDumpSkip ==
    /\ dpc = "loop"
    /\ clock < timeStop
    /\ clock <= timeNext
    /\ IF CapReached(signals, maxSignals)
       THEN /\ dpc' = "returned"
            /\ dOutcome' = "returned"
            /\ clock' = clock
       ELSE /\ UNCHANGED <<dpc, dOutcome>>
            /\ clock' = clock + 1
    /\ UNCHANGED <<dName, period, maxSignals, timeStop, timeNext, signals,
                   lastPoll, sensorPolls, failedPolls, polledWhenFull,
                   pollLog, signalPolls,
                   codecVars, simVars, groupVars, acVars, fnVars>>

\* `while time.time() < timeStop` is false: return signals
SensorDumpReturn ==
    /\ dpc = "loop"
    /\ clock >= timeStop
    /\ dpc' = "returned"
    /\ dOutcome' = "returned"
    /\ UNCHANGED <<dName, period, maxSignals, clock, timeStop, timeNext, signals,
                   lastPoll, sensorPolls, failedPolls, polledWhenFull,
                   pollLog, signalPolls,
                   codecVars, simVars, groupVars, acVars, fnVars>>

(***************************************************************************)
(* IRRemoteFunction built by its constructor or by fromJSON, then          *)
(* triggered; a command triggered on its own; fromIRSensor up to its call  *)
(* of sensorDump.  A command object is modelled by its class.              *)
(***************************************************************************)
\* iterables handed to the constructor hold 0..MaxCommands objects
MaxCommands == 3

\* objects found in `irRemoteCommands`: two kinds of command and a str
Objects == {"IRRemoteCommandRaw", "IRRemoteCommandUndefined", "str"}

\* isinstance(x, IRRemoteCommand)
IsCommand(x) == x \in {"IRRemoteCommandRaw", "IRRemoteCommandUndefined"}

RECURSIVE SeqsUpTo(_, _)
SeqsUpTo(S, n) ==
    IF n = 0 THEN {<< >>}
    ELSE LET shorter == SeqsUpTo(S, n - 1)
         IN  shorter \cup {Append(q, x) : q \in shorter, x \in S}

IterArg(q) ==
    [kind |-> "iterable", items |-> q,
     notCommands |-> {i \in DOMAIN q : ~IsCommand(q[i])}]

\* values handed to the constructor as `irRemoteCommands`
CommandsArgs ==
    {CommandArg(c) : c \in {"IRRemoteCommandRaw", "IRRemoteCommandUndefined"}}
    \cup {NoneArg}
    \cup {IterArg(q) : q \in SeqsUpTo(Objects, MaxCommands)}

\* values handed as `functionType`
TypeArgs ==
    {ObjArg(Member("TYPE", n)) : n \in DOMAIN TYPE}
    \cup {ObjArg(NoneObj), StrArg("single"), StrArg("toggle"), StrArg("SINGLE"),
          IntArg(1)}

\* the JSON of one command: {'raw': {...}}, {'ProntoHEX': ...} or {}
CommandJSONs == {"raw", "ProntoHEX", "empty"}

\* IRRemoteCommand.fromJSON(jsonData)
CommandFromJSON(j) ==
    CASE j = "raw"   -> Ok("IRRemoteCommandRaw")
      [] j = "empty" -> Raise("KeyError")
      [] OTHER       -> Ok("IRRemoteCommandUndefined")

\* jsonData['irCommands']: the key is absent, its value is null, or a list
JSONCommands ==
    {[kind |-> k, items |-> << >>, notCommands |-> {}] : k \in {"absent", "null"}}
    \cup {[kind |-> "list", items |-> q, notCommands |-> {}] :
             q \in SeqsUpTo(CommandJSONs, MaxCommands)}

\* jsonData['type']: absent (None here) or a str
JSONTypes ==
    {ObjArg(NoneObj), StrArg("SINGLE"), StrArg("TOGGLE"), StrArg("single")}

\* IRRemoteFunction.fromJSON(jsonData)
fromJSON(cmds, type) ==
    LET conv == [i \in DOMAIN cmds.items |-> CommandFromJSON(cmds.items[i])]
        bad  == {i \in DOMAIN conv : ~conv[i].ok}
        name == IF type = ObjArg(NoneObj) THEN "SINGLE" ELSE type.str
        t    == TypeByName(name)
    IN  IF cmds.kind = "null" THEN FunctionRaise("TypeError")
        ELSE IF bad # {} THEN FunctionRaise("KeyError")
        ELSE IF ~t.ok THEN FunctionRaise(t.exc)
        ELSE IRRemoteFunctionInit(IterArg([i \in DOMAIN conv |-> conv[i].val]),
                                  ObjArg(t.val))

TriggerOk == [exc |-> "", sent |-> 1]

TriggerRaise(e, sent) == [exc |-> e, sent |-> sent]

\* <command>.trigger(lookinRemote): IRRemoteCommandRaw sends a raw command
\* event, io being what the request does; IRRemoteCommandUndefined raises
CommandTrigger(cmd, io) ==
    IF cmd = "IRRemoteCommandRaw"
    THEN IF io = "ok" THEN TriggerOk ELSE TriggerRaise(io, 1)
    ELSE TriggerRaise("Exception: This method is not supported.", 0)

\* trigger without the test of the function's type
FunctionTrigger_mutNoTypeTest(f, io) ==
    CommandTrigger(f.irCommands[1], io)

\* IRRemoteFunction.trigger(lookinRemote) on a constructed function (whose
\* irCommands is a tuple, never None)
FunctionTrigger(f, io) ==
    IF f.functionType # "SINGLE"
    THEN TriggerRaise("NotImplementedError", 0)
    ELSE CommandTrigger(f.irCommands[1], io)

NoFunctionCall ==
    [op |-> "", arg |-> NoneArg, functionType |-> ObjArg(NoneObj)]

FnIdle ==
    /\ fpc = "idle"
    /\ fCall = NoFunctionCall
    /\ fn = NoFunction
    /\ fOutcome = ""
    /\ transmitted = 0
    /\ irPolls = 0

FnInit ==
    /\ fpc = "ready"
    /\ fCall = NoFunctionCall
    /\ fn = NoFunction
    /\ fOutcome = ""
    /\ transmitted = 0
    /\ irPolls = 0

\* what a construction leaves: the function, or the exception
Constructed(op, arg, type, r) ==
    /\ fpc = "ready"
    /\ fCall' = [op |-> op, arg |-> arg, functionType |-> type]
    /\ fn' = r
    /\ fOutcome' = IF r.outcome = "raised" THEN r.exc ELSE "returned"
    /\ fpc' = IF r.outcome = "raised" THEN "ended" ELSE "built"
    /\ UNCHANGED <<transmitted, irPolls,
                   codecVars, simVars, groupVars, acVars, dumpVars>>

\* f = IRRemoteFunction(name, irRemoteCommands, functionType)
IRRemoteFunctionCall ==
    \E arg \in CommandsArgs, type \in TypeArgs :
        Constructed("IRRemoteFunction", arg, type, IRRemoteFunctionInit(arg, type))

\* f = IRRemoteFunction.fromJSON(jsonData)
FromJSONCall ==
    \E cmds \in JSONCommands, type \in JSONTypes :
        Constructed("fromJSON", cmds, type, fromJSON(cmds, type))

\* f.trigger(lookinRemote)
FunctionTriggerCall ==
    /\ fpc = "built"
    /\ \E io \in IoResults :
         LET r == FunctionTrigger(fn, io)
         IN  /\ transmitted' = transmitted + r.sent
             /\ fOutcome' = IF r.exc = "" THEN "returned" ELSE r.exc
    /\ fpc' = "triggered"
    /\ UNCHANGED <<fCall, fn, irPolls,
                   codecVars, simVars, groupVars, acVars, dumpVars>>

\* c.trigger(lookinRemote) on a command that is in no function
CommandTriggerCall ==
    /\ fpc = "ready"
    /\ \E c \in {"IRRemoteCommandRaw", "IRRemoteCommandUndefined"}, io \in IoResults :
         LET r == CommandTrigger(c, io)
         IN  /\ fCall' = [op |-> "trigger", arg |-> CommandArg(c),
                          functionType |-> ObjArg(NoneObj)]
             /\ transmitted' = transmitted + r.sent
             /\ fOutcome' = IF r.exc = "" THEN "returned" ELSE r.exc
    /\ fpc' = "triggered"
    /\ UNCHANGED <<fn, irPolls,
                   codecVars, simVars, groupVars, acVars, dumpVars>>

\* the first lines of fromIRSensor when the type is not TYPE.SINGLE: the
\* message of the NotImplementedError reads functionType.name
RejectType(type) ==
    IF type.kind = "obj" /\ type.obj.cls = "TYPE"
    THEN "NotImplementedError"
    ELSE "AttributeError"

\* IRRemoteFunction.fromIRSensor(lookinRemote, functionName, functionType), up
\* to lookinRemote.sensorDump('IR', 1, 300, 10)
FromIRSensorCall ==
    /\ fpc = "ready"
    /\ \E type \in TypeArgs :
         /\ fCall' = [op |-> "fromIRSensor", arg |-> NoneArg, functionType |-> type]
         /\ IF type # ObjArg(Member("TYPE", "SINGLE"))
            THEN /\ fOutcome' = RejectType(type)
                 /\ fpc' = "ended"
                 /\ irPolls' = irPolls
            ELSE /\ fOutcome' = ""
                 /\ fpc' = "capturing"
                 /\ irPolls' = irPolls + 1
    /\ UNCHANGED <<fn, transmitted,
                   codecVars, simVars, groupVars, acVars, dumpVars>>

(***************************************************************************)
(* Specifications: one per scenario; the variables of the other scenarios  *)
(* stay idle.                                                              *)
(***************************************************************************)
InitCodec == CodecInit /\ SimIdle /\ GroupIdle /\ AcIdle /\ DumpIdle /\ FnIdle

NextCodec ==
    \/ FromStatusBytesCall
    \/ StatusInitCall
    \/ ToStatusBytesCall
    \/ RedecodeCall

SpecCodec == InitCodec /\ [][NextCodec]_vars

InitSetter == SetterInit /\ SimIdle /\ GroupIdle /\ AcIdle /\ DumpIdle /\ FnIdle

NextSetter ==
    \/ OperatingModeSetCall
    \/ TempTargetSetCall
    \/ FanSpeedModeSetCall
    \/ SwingModeSetCall

SpecSetter == InitSetter /\ [][NextSetter]_vars

InitSim == CodecIdle /\ SimInit /\ GroupIdle /\ AcIdle /\ DumpIdle /\ FnIdle

NextSim == IsSimilarCall

SpecSim == InitSim /\ [][NextSim]_vars

InitGroup == CodecIdle /\ SimIdle /\ GroupInit /\ AcIdle /\ DumpIdle /\ FnIdle

NextGroup ==
    \/ GroupStep
    \/ GroupReturn
    \/ LearnReturn

SpecGroup == InitGroup /\ [][NextGroup]_vars

InitAC == CodecIdle /\ SimIdle /\ GroupIdle /\ AcInit /\ DumpIdle /\ FnIdle

NextAC ==
    \/ ACRemote_operatingModeSet
    \/ ACRemote_tempSet
    \/ ACRemote_fanSpeedModeSet
    \/ ACRemote_swingModeSet
    \/ ACRemote_statusSet
    \/ ACRemote_statusRefresh
    \/ StatusSetSubmit
    \/ StatusSetWindow
    \/ StatusSetPoll
    \/ DeviceApply

SpecAC == InitAC /\ [][NextAC]_vars

InitDump == CodecIdle /\ SimIdle /\ GroupIdle /\ AcIdle /\ DumpInit /\ FnIdle

NextDump ==
    \/ SensorDumpCall
    \/ SensorDumpPoll
    \/ SensorDumpSkip
    \/ SensorDumpReturn

SpecDump == InitDump /\ [][NextDump]_vars

\* sensorDump runs in the caller's thread: a step of the call that can be
\* taken is taken (the clock advances, a poll returns or fails)
SpecDumpFair == InitDump /\ [][NextDump]_vars /\ WF_vars(NextDump)

InitFunction == CodecIdle /\ SimIdle /\ GroupIdle /\ AcIdle /\ DumpIdle /\ FnInit

NextFunction ==
    \/ IRRemoteFunctionCall
    \/ FromJSONCall
    \/ FunctionTriggerCall
    \/ CommandTriggerCall
    \/ FromIRSensorCall

SpecFunction == InitFunction /\ [][NextFunction]_vars

Init ==
    \/ InitCodec \/ InitSetter \/ InitSim \/ InitGroup
    \/ InitAC \/ InitDump \/ InitFunction

Next ==
    \/ NextCodec \/ NextSetter \/ NextSim \/ NextGroup
    \/ NextAC \/ NextDump \/ NextFunction

Spec == Init /\ [][Next]_vars

(***************************************************************************)
(* Properties                                                              *)
(***************************************************************************)
\* C1: for every 16-bit status code x, Status.fromStatusBytes(x) does not
\* raise, and Status.fromStatusBytes(x).toStatusBytes() is x again.
C1_DecodeEncodeRoundTrip ==
    /\ cpc # "decodeRaised"
    /\ cpc = "reencoded" => codeOut = codeIn

C1_Witness ==
    /\ cpc = "reencoded"
    /\ codeIn = 2 ^ StatusBits - 1
    /\ status.tempTarget_C = 31

\* C2: a Status built from a valid operating mode, an int temperature in
\* 16..31, a valid fan speed mode and a valid swing mode is equal (__eq__) to
\* Status.fromStatusBytes of its toStatusBytes(): the four fields come back.
C2_EncodeDecodeRoundTrip ==
    /\ cpc # "redecodeRaised"
    /\ cpc = "redecoded" =>
         /\ StatusEq(status, status2)
         /\ status2.operatingMode = status.operatingMode
         /\ status2.tempTarget_C = status.tempTarget_C
         /\ status2.fanSpeedMode = status.fanSpeedMode
         /\ status2.swingMode = status.swingMode

C2_Witness ==
    /\ cpc = "redecoded"
    /\ status.operatingMode = Member("OPERATINGMODE", "HEAT")
    /\ status.tempTarget_C = 31
    /\ status.fanSpeedMode = Member("FANSPEEDMODE", "AUTO")
    /\ status.swingMode = Member("SWINGMODE", "UNKNOWN07")
    /\ status2 = status

\* C3: Status.tempTargetSet(t) with an int t raises a validation error
\* (ValueError) exactly when t < 16 or t > 31, and for 16 <= t <= 31 it stores
\* tempTarget_C = t.
C3_TempTargetSetRange ==
    lastCall.op = "tempTargetSet" =>
        LET t == lastCall.arg.int
        IN  /\ (exc # "") <=> (t < 16 \/ t > 31)
            /\ exc \in {"", "ValueError"}
            /\ (16 <= t /\ t <= 31) => status.tempTarget_C = t

C3_Witness ==
    /\ lastCall.op = "tempTargetSet"
    /\ lastCall.arg.int = 16
    /\ exc = ""
    /\ status.tempTarget_C = 16

\* number of indices at which the two samples differ by more than 10% of the
\* sum of their magnitudes (the ratio is taken where it is defined)
DifferingSamples(a, b) ==
    Cardinality({i \in 1 .. MinOf(Len(a), Len(b)) :
                    /\ Abs(a[i]) + Abs(b[i]) > 0
                    /\ 10 * Abs(Abs(a[i]) - Abs(b[i])) > Abs(a[i]) + Abs(b[i])})

\* C4: isSimilar(a, b) is false whenever the two signals differ in length.
C4_LengthGate ==
    (spc = "done" /\ Len(lhs) # Len(rhs)) => simResult = "False"

\* C5: for two non-identical signals of equal length n, isSimilar returns
\* true exactly when the number d of samples differing by more than 10%
\* satisfies d / n <= 2%.
C5_ThresholdExact ==
    (spc = "done" /\ lhs # rhs /\ Len(lhs) = Len(rhs)) =>
        /\ simResult \in {"True", "False"}
        /\ simResult = "True" <=> 50 * DifferingSamples(lhs, rhs) <= Len(lhs)

\* C6: isSimilar is true for two signals with element-wise equal sequences
\* (so isSimilar(a, a) is), and _compare is not run for them.
C6_IdenticalShortcut ==
    (spc = "done" /\ lhs = rhs) => (simResult = "True" /\ ~compareCalled)

C6_Witness ==
    /\ spc = "done"
    /\ lhs = <<0, 110>>
    /\ rhs = lhs
    /\ simResult = "True"

\* isSimilar between the i-th and the j-th captured command
Similar(i, j) == isSimilar(irCommands[i], irCommands[j])

\* the commands of K are pairwise similar, every other command is similar to
\* no other command
CliqueAndLoners(K) ==
    LET ids == 1 .. Len(irCommands)
    IN  /\ Cardinality(K) >= 2
        /\ \A i \in K, j \in K : i # j => Similar(i, j) = "True"
        /\ \A i \in ids \ K, j \in ids : i # j => Similar(i, j) = "False"

SeqRange(q) == {q[x] : x \in 1 .. Len(q)}

\* C7: when the input is k >= 2 pairwise similar signals plus signals similar
\* to no other input signal (and minMatches <= k), _groupCommands returns, in
\* every input order, exactly one group, whose members are exactly the k
\* signals, each once.
C7_OneGroupOfTheSimilar ==
    gpc \in {"grouped", "done", "raised"} =>
        \A K \in SUBSET (1 .. Len(irCommands)) :
            (CliqueAndLoners(K) /\ minMatches <= Cardinality(K)) =>
                /\ gpc # "raised"
                /\ Len(retCommands) = 1
                /\ SeqRange(retCommands[1].members) = K
                /\ Len(retCommands[1].members) = Cardinality(K)

C7_Witness ==
    /\ gpc = "grouped"
    /\ irCommands = << <<100>>, <<0, 100>>, <<115>>, <<100>> >>
    /\ CliqueAndLoners({1, 3, 4})
    /\ Len(retCommands) = 1
    /\ SeqRange(retCommands[1].members) = {1, 3, 4}

NoSimilarPair ==
    \A i \in 1 .. Len(irCommands), j \in 1 .. Len(irCommands) :
        i # j => Similar(i, j) = "False"

\* C8: _groupCommands with minMatches = 2 returns no group when no two input
\* signals are similar (the empty and the one-signal input included).
C8_NoPairsNoGroups ==
    (gpc \in {"grouped", "done", "raised"} /\ minMatches = 2 /\ NoSimilarPair) =>
        (gpc # "raised" /\ retCommands = << >>)

C8_Witness ==
    /\ gpc = "grouped"
    /\ minMatches = 2
    /\ irCommands = << <<100>>, <<135>>, <<0, 100>> >>
    /\ NoSimilarPair
    /\ retCommands = << >>

\* C9: when grouping yields at least one group, fromIRSensor returns a SINGLE
\* function whose one command is the key of a group no other returned group
\* has more members than; for a stream [X, X, X, Y] with the X mutually
\* similar and Y similar to none, that command is one of the X.
C9_LargestGroupSelected ==
    (gpc = "done" /\ Len(retCommands) >= 1) =>
        /\ learned.outcome = "returned"
        /\ learned.functionType = "SINGLE"
        /\ Len(learned.irCommands) = 1
        /\ \E p \in 1 .. Len(retCommands) :
              /\ retCommands[p].key = learned.irCommands[1]
              /\ \A q \in 1 .. Len(retCommands) :
                    Len(retCommands[q].members) <= Len(retCommands[p].members)
        /\ (Len(irCommands) = 4 /\ CliqueAndLoners({1, 2, 3})) =>
              learned.irCommands[1] \in {1, 2, 3}

C9_Witness ==
    /\ gpc = "done"
    /\ Len(retCommands) = 2
    /\ Len(retCommands[1].members) > Len(retCommands[2].members)
    /\ learned.outcome = "returned"
    /\ learned.irCommands = <<retCommands[1].key>>

\* C10: when no group meets minMatches (a session without captures
\* included), fromIRSensor reports nothing-learned to its caller and raises
\* no exception.
C10_NothingLearnedNoException ==
    (gpc = "done" /\ retCommands = << >>) => learned.outcome # "raised"

(***************************************************************************)
(* Properties of ACRemote (SpecAC)                                         *)
(***************************************************************************)
\* the call went into statusSet: `status` is bound
EnteredStatusSet == target # BlankStatus

\* the status the device's data decodes to equals the target
ReportsTarget == StatusEq(remoteDataSet(reported), target)

\* the argument designates a member of the enumeration cls: the member, its
\* name or its value
DesignatesMember(cls, arg) ==
    \/ arg.kind = "obj" /\ IsMember(arg.obj, cls)
    \/ arg.kind = "str" /\ arg.str \in DOMAIN EnumTable(cls)
    \/ arg.kind = "int" /\ \E n \in DOMAIN EnumTable(cls) : EnumTable(cls)[n] = arg.int

\* the member of cls that arg designates
ArgMember(cls, arg) ==
    CASE arg.kind = "obj" -> arg.obj
      [] arg.kind = "str" -> Member(cls, arg.str)
      [] OTHER -> Member(cls, CHOOSE n \in DOMAIN EnumTable(cls) : EnumTable(cls)[n] = arg.int)

\* C11: when the device's data never decodes to the target, a call that went
\* into statusSet ends by TimeoutError, after Retries submissions of the
\* command.  (The device's data changes only by DeviceApply, which makes it
\* the target's: data that differs from the target when the call is over
\* differed all along.)
C11_TimeoutWhenNeverReported ==
    (apc = "ended" /\ EnteredStatusSet /\ ~ReportsTarget)
        => (acOutcome = "TimeoutError" /\ submissions = Retries)

InvalidMutatorCall ==
    \/ acCall.op = "tempSet"
         /\ (acCall.arg.int < TempMin \/ acCall.arg.int > TempMax)
    \/ acCall.op = "operatingModeSet"
         /\ ~DesignatesMember("OPERATINGMODE", acCall.arg)

\* C14: tempSet with a temperature outside [16, 31] and operatingModeSet with
\* a value that is no member of OPERATINGMODE raise, and neither the command
\* is submitted nor the device polled
C14_ValidationBeforeNetwork ==
    InvalidMutatorCall
        => /\ apc = "ended"
           /\ acOutcome \in {"ValueError", "KeyError"}
           /\ submissions = 0
           /\ polls = 0

\* in the legacy file, where a valid call does submit the command
C14_Witness ==
    /\ build = "legacy"
    /\ InvalidMutatorCall
    /\ apc = "ended"
    /\ acOutcome = "ValueError"

C19_FanSwingTarget ==
    /\ (acCall.op = "fanSpeedModeSet" /\ DesignatesMember("FANSPEEDMODE", acCall.arg))
          => target = [statusBefore EXCEPT
                          !.fanSpeedMode = ArgMember("FANSPEEDMODE", acCall.arg)]
    /\ (acCall.op = "swingModeSet" /\ DesignatesMember("SWINGMODE", acCall.arg))
          => target = [statusBefore EXCEPT
                          !.swingMode = ArgMember("SWINGMODE", acCall.arg)]

(***************************************************************************)
(* Properties of sensorDump (SpecDump)                                     *)
(***************************************************************************)
TransientErrors == {"ConnectionResetError", "socket.timeout", "URLError"}

\* C16: a poll of sensorDump that raises a connection reset, a socket timeout
\* or a URL error leaves `signals` as it was and does not end the call by an
\* exception; the call returns only at the deadline or at maxSignals, and
\* when every poll failed so it returns the empty list
C16_PollErrorsAreMissedSamples ==
    [][/\ ((sensorPolls' = sensorPolls + 1 /\ lastPoll'.exc \in TransientErrors)
            => (/\ signals' = signals
                /\ dpc' \in {"loop", "returned"}
                /\ dOutcome' # lastPoll'.exc))
       /\ ((dpc' = "returned")
            => (/\ (clock' >= timeStop'
                      \/ (maxSignals' # NoMax /\ Len(signals') >= maxSignals'))
                /\ (failedPolls' = sensorPolls' => signals' = << >>)))
       /\ ((dpc' = "raised") => (failedPolls' < sensorPolls'))]_vars

\* every poll of a call failed, several times, and the call returned []
C16_Witness ==
    /\ dpc = "returned"
    /\ sensorPolls >= 2
    /\ failedPolls = sensorPolls
    /\ lastPoll.exc = "URLError"
    /\ signals = << >>

\* C20: with maxSignals = m >= 1 the list never holds more than m captures,
\* the call is over as soon as it holds m, and no poll is made once it does
C20_StopsAtMaxSignals ==
    (maxSignals # NoMax /\ maxSignals >= 1)
        => /\ Len(signals) <= maxSignals
           /\ (Len(signals) = maxSignals => dpc = "returned")
           /\ ~polledWhenFull

\* the call stopped at its second capture, before the deadline
C20_Witness ==
    /\ dpc = "returned"
    /\ maxSignals = 2
    /\ Len(signals) = 2
    /\ clock < timeStop

\* the call has ended: it returned, or an exception left it
DumpEnded == dpc \in {"returned", "raised"}

\* C21: every capture session ends (SpecDumpFair: the clock advances and a
\* poll returns or fails): a call in its loop eventually returns, or ends
\* with the exception of a poll that the except clause does not catch; a
\* call whose polls return or fail with the caught errors returns; and no
\* poll is started in an iteration whose test of the while condition found
\* the clock at or past timeStop
C21_SessionTerminates ==
    /\ (dpc = "loop") ~> DumpEnded
    /\ [](dpc = "raised" => lastPoll.exc \notin (CaughtErrors \cup {""}))
    /\ [][(sensorPolls' # sensorPolls) => (clock < timeStop)]_vars

\* a session with a period went through polls and idle iterations and
\* returned at its deadline
C21_Witness ==
    /\ dpc = "returned"
    /\ period > 0
    /\ maxSignals = NoMax
    /\ sensorPolls >= 2
    /\ failedPolls >= 1
    /\ clock >= timeStop

(***************************************************************************)
(* Properties of IRRemoteFunction (SpecFunction)                           *)
(***************************************************************************)
NotSupportedErrors ==
    {"NotImplementedError", "Exception: This method is not supported."}

\* the function was triggered, or the command was triggered on its own
FunctionTriggered == fpc = "triggered" /\ fCall.op \in {"IRRemoteFunction", "fromJSON"}

CommandTriggered == fpc = "triggered" /\ fCall.op = "trigger"

\* C17: trigger on a function whose type is not SINGLE, trigger on an
\* IRRemoteCommandUndefined (alone or as the command of a function) and
\* fromIRSensor with TYPE.TOGGLE raise a not-supported error; no command
\* event is sent and sensorDump is not called
C17_UnsupportedNeverTransmitted ==
    /\ (FunctionTriggered /\ fn.functionType # "SINGLE")
          => (fOutcome = "NotImplementedError" /\ transmitted = 0 /\ irPolls = 0)
    /\ (FunctionTriggered /\ fn.functionType = "SINGLE"
          /\ fn.irCommands[1] = "IRRemoteCommandUndefined")
          => (fOutcome \in NotSupportedErrors /\ transmitted = 0 /\ irPolls = 0)
    /\ (CommandTriggered /\ fCall.arg.items[1] = "IRRemoteCommandUndefined")
          => (fOutcome \in NotSupportedErrors /\ transmitted = 0 /\ irPolls = 0)
    /\ (fCall.op = "fromIRSensor" /\ fCall.functionType = ObjArg(Member("TYPE", "TOGGLE")))
          => (fOutcome = "NotImplementedError" /\ transmitted = 0 /\ irPolls = 0)
    /\ (fCall.op = "fromIRSensor" /\ fCall.functionType # ObjArg(Member("TYPE", "SINGLE")))
          => (fpc = "ended" /\ transmitted = 0 /\ irPolls = 0)

\* a TOGGLE function whose first command is a raw one was triggered
C17_Witness ==
    /\ FunctionTriggered
    /\ fn.functionType = "TOGGLE"
    /\ fn.irCommands[1] = "IRRemoteCommandRaw"
    /\ fOutcome = "NotImplementedError"

\* the number of commands the type designated by a constructor argument asks for
ExpectedLen(type) ==
    IF type \in {ObjArg(Member("TYPE", "SINGLE")), StrArg("single")} THEN 1 ELSE 2

ValidTypeArg(type) ==
    type \in {ObjArg(Member("TYPE", n)) : n \in {"SINGLE", "TOGGLE"}}
             \cup {StrArg("single"), StrArg("toggle")}

\* C18: a constructed function holds 1 command when SINGLE and 2 when TOGGLE;
\* the constructor and fromJSON raise ValueError when handed a valid type and
\* another number of commands
C18_ArityOfFunction ==
    /\ (fn.outcome = "returned")
          => (\/ fn.functionType = "SINGLE" /\ Len(fn.irCommands) = 1
              \/ fn.functionType = "TOGGLE" /\ Len(fn.irCommands) = 2)
    /\ (fCall.op = "IRRemoteFunction" /\ fCall.arg.kind # "None"
          /\ ValidTypeArg(fCall.functionType)
          /\ Len(fCall.arg.items) # ExpectedLen(fCall.functionType))
          => (fn.outcome = "raised" /\ fn.exc = "ValueError")
    /\ (fCall.op = "fromJSON" /\ fCall.arg.kind # "null"
          /\ (\A i \in DOMAIN fCall.arg.items : fCall.arg.items[i] # "empty")
          /\ fCall.functionType \in {ObjArg(NoneObj), StrArg("SINGLE"), StrArg("TOGGLE")}
          /\ Len(fCall.arg.items) # (IF fCall.functionType = StrArg("TOGGLE") THEN 2 ELSE 1))
          => (fn.outcome = "raised" /\ fn.exc = "ValueError")

\* fromJSON built a TOGGLE function of two commands
C18_Witness ==
    /\ fpc = "built"
    /\ fCall.op = "fromJSON"
    /\ fn.outcome = "returned"
    /\ fn.functionType = "TOGGLE"
    /\ Len(fn.irCommands) = 2

(***************************************************************************)
(* Properties of the fields of ACRemote.Status (SpecSetter)                *)
(***************************************************************************)
\* the class of the enumeration a mode setter is about
SetterClass(op) ==
    CASE op = "operatingModeSet" -> "OPERATINGMODE"
      [] op = "fanSpeedModeSet"  -> "FANSPEEDMODE"
      [] OTHER                   -> "SWINGMODE"

\* C22: after every call of a setter of a Status, the three modes are members
\* of their own enumerations and tempTarget_C is an integer in 16..31; a call
\* of a mode setter with an argument that is no member, name or code of the
\* setter's enumeration raises
C22_FieldsStayValid ==
    (cpc = "object")
       => (/\ IsMember(status.operatingMode, "OPERATINGMODE")
           /\ IsMember(status.fanSpeedMode, "FANSPEEDMODE")
           /\ IsMember(status.swingMode, "SWINGMODE")
           /\ status.tempTarget_C \in TempMin .. TempMax
           /\ (lastCall.op \in {"operatingModeSet", "fanSpeedModeSet", "swingModeSet"}
                 /\ ~DesignatesMember(SetterClass(lastCall.op), lastCall.arg))
                 => (exc # ""))

(***************************************************************************)
(* Properties of the groups of _groupCommands (SpecGroup)                  *)
(***************************************************************************)
\* _groupCommands has returned retCommands
GroupsReturned == gpc \in {"grouped", "done"}

GroupIdx == 1 .. Len(retCommands)

\* the ids of the members of the group at position p
MembersOf(p) == SeqRange(retCommands[p].members)

CurrentPair == Combinations2(Len(irCommands))[pairIdx]

\* the groups, existing before the iteration, whose key is similar to i or j
MatchingGroups(i, j) ==
    {p \in GroupIdx : \/ Similar(retCommands[p].key, i) = "True"
                      \/ Similar(retCommands[p].key, j) = "True"}

\* C24: an iteration over a pair judged similar leaves both members of the
\* pair in every group that existed before it and whose key is similar to
\* either member, and starts a new group only if there was no such group
C24_AttachedToAllMatching ==
    [][(gpc = "grouping" /\ pairIdx' = pairIdx + 1
          /\ Similar(CurrentPair[1], CurrentPair[2]) = "True")
        => (LET i == CurrentPair[1]
                j == CurrentPair[2]
            IN  /\ \A p \in MatchingGroups(i, j) :
                      {i, j} \subseteq SeqRange(retCommands'[p].members)
                /\ (Len(retCommands') > Len(retCommands))
                      => (MatchingGroups(i, j) = {}))]_vars

\* the groups of rc, as a set
GroupSet(rc) == {rc[p] : p \in 1 .. Len(rc)}

\* C25: every returned group has at least minMatches members, and the
\* return hands back, unchanged, exactly the groups built by the loop over
\* the pairs that have at least minMatches members
C25_MinMatchesFilter ==
    /\ [](GroupsReturned
            => (\A p \in GroupIdx : Len(retCommands[p].members) >= minMatches))
    /\ [][(gpc = "grouping" /\ gpc' = "grouped")
            => (/\ GroupSet(retCommands') \subseteq GroupSet(retCommands)
                /\ \A g \in GroupSet(retCommands) :
                      (Len(g.members) >= minMatches) => (g \in GroupSet(retCommands')))]_vars

\* with minMatches = 3 a group of at least three members was returned and a
\* smaller group that the loop had built was not
C25_Witness ==
    /\ gpc = "grouped"
    /\ minMatches = 3
    /\ \E p \in GroupIdx : Len(retCommands[p].members) >= 3
    /\ \E k \in DOMAIN retIDs : \A p \in GroupIdx : retCommands[p].key # k

\* all the captures of the list have the same sequence, element by element
AllIdentical ==
    \A i \in 1 .. Len(irCommands), j \in 1 .. Len(irCommands) :
        irCommands[i] = irCommands[j]

C27_ReturnedListIsDeduplicated ==
    (dpc = "returned" /\ dName = "IR")
       => (/\ Len(signalPolls) = Len(signals)
           /\ \A k \in 1 .. Len(signals) :
                 /\ signalPolls[k] \in 1 .. Len(pollLog)
                 /\ pollLog[signalPolls[k]].exc = ""
                 /\ pollLog[signalPolls[k]].raw
                 /\ pollLog[signalPolls[k]].updated = signals[k]
           /\ \A k \in 1 .. Len(signals) - 1 :
                 /\ signalPolls[k] < signalPolls[k + 1]
                 /\ signals[k] # signals[k + 1])

\* a call returned two captures out of three polls, one of which read again
\* the capture stored just before
C27_Witness ==
    /\ dpc = "returned"
    /\ dName = "IR"
    /\ Len(signals) = 2
    /\ Len(pollLog) = 3
    /\ \E k \in 2 .. Len(pollLog) :
          /\ pollLog[k].raw
          /\ pollLog[k - 1].raw
          /\ pollLog[k].updated = pollLog[k - 1].updated

(***************************************************************************)
(* Properties of isSimilar (SpecSim)                                       *)
(***************************************************************************)
\* C28: lhs.isSimilar(rhs) returns True or False and raises nothing, for
\* every pair of sequences of ints, zero durations and the empty sequence
\* included
C28_IsSimilarIsTotal ==
    (spc = "done") => (simResult \in {"True", "False"})

\* the input signals that are similar to at least one other input signal
HasSimilarPartner(i) ==
    \E j \in 1 .. Len(irCommands) : j # i /\ Similar(i, j) = "True"

\* C29: _groupCommands with minMatches = 2 returns, and every input signal
\* that is similar to another input signal is a member of a returned group,
\* and the key of every returned group is one of its members
C29_SimilarSignalsAreGrouped ==
    (gpc \in {"grouped", "done", "raised"} /\ minMatches = 2)
       => (/\ (\A i \in 1 .. Len(irCommands) :
                  HasSimilarPartner(i)
                     => (gpc # "raised" /\ \E p \in GroupIdx : i \in MembersOf(p)))
           /\ (\A p \in GroupIdx : retCommands[p].key \in MembersOf(p)))

(***************************************************************************)
(* Properties of the cached status of ACRemote (SpecAC)                    *)
(***************************************************************************)
\* C30: when operatingModeSet or tempSet has ended, by return or by an
\* exception, the cached status (what statusGet() returns) is the status
\* decoded last from the device's data, or the one of the construction
C30_CachedIsLastDecoded ==
    (apc = "ended" /\ acCall.op \in {"operatingModeSet", "tempSet"})
       => StatusEq(cached, lastDecoded)

====
